---- MODULE Spec2Model ----
(***************************************************************************)
(* Version resolution and acquisition state machine of the VoxelEngine     *)
(* launcher: src/src/version_manager/{mod,version,utils}.rs and the part   *)
(* of src/src/main.rs (Launcher::update, Interface) that drives it.         *)
(***************************************************************************)
EXTENDS Integers, Sequences, FiniteSets, TLC

(* ---------------------------------------------------------------- bounds *)
\* play calls that spawn a background task
MaxPlays == 2
\* chunks of one response body
MaxChunks == 3
\* VersionManager::update calls, the constructor's included
MaxRefresh == 2

(* ------------------------------------------------------------- constants *)
NoName == "<no name>"
LatestGit == "Latest (Git)"
NoUrl == "<no url>"

Platforms == {"windows", "linux", "macos"}

(* ------------------------------------------------- VersionData (version.rs) *)
GitLatest == [tag |-> "GitLatest"]
Binary(url, unzip) == [tag |-> "Binary", url |-> url, unzip |-> unzip]
Source(zipball_url) == [tag |-> "Source", zipball_url |-> zipball_url]
Local(binary, origin) == [tag |-> "Local", binary |-> binary, origin |-> origin]
NotFound == [tag |-> "NotFound"]

(* ------------------------------------------------------ utils.rs helpers *)
cfg_windows(plat) == plat = "windows"
cfg_unix(plat) == plat \in {"linux", "macos"}

\* utils::find_platform_version: asset.name.contains("win64") / ("AppImage")
find_platform_version(asset, plat) ==
    IF cfg_windows(plat) THEN asset.name = "win64"
    ELSE IF cfg_unix(plat) THEN asset.name = "AppImage"
    ELSE FALSE

downloaded_name(plat) ==
    IF cfg_windows(plat) THEN "VoxelEngine.exe" ELSE "VoxelEngine.AppImage"

binary_name(plat) ==
    IF cfg_windows(plat) THEN "VoxelEngine.exe" ELSE "VoxelEngine"

\* Path::new("build").join(utils::binary_name())
build_output(plat) ==
    IF cfg_windows(plat) THEN "build/VoxelEngine.exe" ELSE "build/VoxelEngine"

(* ------------------------------------- sidecar text: ron::to_string/from_str *)
\* the mutant writes booleans capitalised, which the reader does not accept
BoolText_caps(b) == IF b THEN "True" ELSE "False"

BoolText(b) == IF b THEN "true" ELSE "false"

RECURSIVE ron_to_string(_)
ron_to_string(d) ==
    CASE d.tag = "GitLatest" -> <<"GitLatest">>
      [] d.tag = "NotFound" -> <<"NotFound">>
      [] d.tag = "Binary" ->
            <<"Binary", "(", "url:", d.url, "unzip:", BoolText(d.unzip), ")">>
      [] d.tag = "Source" -> <<"Source", "(", "zipball_url:", d.zipball_url, ")">>
      [] d.tag = "Local" ->
            <<"Local", "(", "binary:", d.binary, "origin:">>
                \o ron_to_string(d.origin) \o <<")">>

\* Recursive-descent reading of one VersionData value starting at token i:
\* [ok, val, next].  A failed read has ok = FALSE.
ParseFail == [ok |-> FALSE, val |-> NotFound, next |-> 0]

Tok(toks, i) == IF i \in 1..Len(toks) THEN toks[i] ELSE "<eof>"

RECURSIVE ron_value(_, _)
ron_value(toks, i) ==
    LET t == Tok(toks, i) IN
    CASE t = "GitLatest" -> [ok |-> TRUE, val |-> GitLatest, next |-> i + 1]
      [] t = "NotFound" -> [ok |-> TRUE, val |-> NotFound, next |-> i + 1]
      [] t = "Binary" ->
            IF /\ Tok(toks, i + 1) = "("
               /\ Tok(toks, i + 2) = "url:"
               /\ i + 3 <= Len(toks)
               /\ Tok(toks, i + 4) = "unzip:"
               /\ Tok(toks, i + 5) \in {"true", "false"}
               /\ Tok(toks, i + 6) = ")"
            THEN [ok |-> TRUE,
                  val |-> Binary(toks[i + 3], Tok(toks, i + 5) = "true"),
                  next |-> i + 7]
            ELSE ParseFail
      [] t = "Source" ->
            IF /\ Tok(toks, i + 1) = "("
               /\ Tok(toks, i + 2) = "zipball_url:"
               /\ i + 3 <= Len(toks)
               /\ Tok(toks, i + 4) = ")"
            THEN [ok |-> TRUE, val |-> Source(toks[i + 3]), next |-> i + 5]
            ELSE ParseFail
      [] t = "Local" ->
            IF /\ Tok(toks, i + 1) = "("
               /\ Tok(toks, i + 2) = "binary:"
               /\ i + 3 <= Len(toks)
               /\ Tok(toks, i + 4) = "origin:"
            THEN LET o == ron_value(toks, i + 5) IN
                 IF o.ok /\ Tok(toks, o.next) = ")"
                 THEN [ok |-> TRUE,
                       val |-> Local(toks[i + 3], o.val),
                       next |-> o.next + 1]
                 ELSE ParseFail
            ELSE ParseFail
      [] OTHER -> ParseFail

\* ron::from_str::<VersionData>: Ok only when the whole text is one value
ron_from_str(toks) ==
    LET r == ron_value(toks, 1) IN
    IF r.ok /\ r.next = Len(toks) + 1
    THEN [ok |-> TRUE, val |-> r.val]
    ELSE [ok |-> FALSE, val |-> NotFound]

\* the text of a sidecar that does not parse
CorruptText == <<"Local", "(", "binary:">>

(* --------------------------------------------------------- the file system *)
\* permission bits of the downloaded executable: none while the file does not
\* exist, what File::create gives a new file (0o666 under the usual umask 022,
\* never an execute bit), and what set_permissions(from_mode(0o755)) leaves
NoFile == 0
CreateMode == 420
Mode755 == 493

\* one directory entry of versions/: the directory itself, version.ron,
\* the source checkout versions/<name>/src, and the mode of the downloaded
\* executable versions/<name>/<downloaded_name>
NoDir == [dir |-> FALSE, has_ron |-> FALSE, ron |-> <<>>, src |-> FALSE,
          exe |-> NoFile]
EmptyDir == [dir |-> TRUE, has_ron |-> FALSE, ron |-> <<>>, src |-> FALSE,
             exe |-> NoFile]
DirWith(text) == [dir |-> TRUE, has_ron |-> TRUE, ron |-> text, src |-> FALSE,
                  exe |-> NoFile]

\* names that can occur as subdirectories of versions/, in read_dir order
DirOrder == <<LatestGit, "v11", "v12", "v20">>
DirNames == {DirOrder[i] : i \in 1..Len(DirOrder)}

\* std::fs::read_to_string(get_version_path(name).join("version.ron"))
read_sidecar(fsys, name) ==
    IF fsys[name].dir /\ fsys[name].has_ron
    THEN [ok |-> TRUE, text |-> fsys[name].ron]
    ELSE [ok |-> FALSE, text |-> <<>>]

(* ------------------------------------------------- host releases (octocrab) *)
Asset(name, url) == [name |-> name, url |-> url]
Release(name, assets, zipball_url) ==
    [name |-> name, assets |-> assets, zipball_url |-> zipball_url]

\* release.assets.iter().find(|asset| find_platform_version(asset))
\*     .map(|asset| asset.browser_download_url)
RECURSIVE find_asset(_, _, _)
find_asset(assets, i, plat) ==
    IF i > Len(assets) THEN <<>>
    ELSE IF find_platform_version(assets[i], plat) THEN <<assets[i].url>>
    ELSE find_asset(assets, i + 1, plat)

(* ------------------------------------------------------------ Version::parse *)
\* the mutant resolves the source archive before the platform binary
parse_source_first(release, fsys, use_prebuilt, plat) ==
    IF release.name = NoName THEN <<>>
    ELSE
      LET file == read_sidecar(fsys, release.name)
          side == ron_from_str(file.text)
          found == find_asset(release.assets, 1, plat)
          data ==
            IF file.ok /\ side.ok THEN side.val
            ELSE IF release.zipball_url # NoUrl THEN Source(release.zipball_url)
            ELSE IF found # <<>> /\ use_prebuilt
                 THEN Binary(found[1], cfg_windows(plat))
            ELSE NotFound
      IN <<[name |-> release.name, data |-> data]>>

\* Option<Version> as a sequence of length <= 1
parse(release, fsys, use_prebuilt, plat) ==
    IF release.name = NoName THEN <<>>
    ELSE
      LET file == read_sidecar(fsys, release.name)
          side == ron_from_str(file.text)
          found == find_asset(release.assets, 1, plat)
          binary_url == IF use_prebuilt THEN found ELSE <<>>
          data ==
            IF file.ok /\ side.ok THEN side.val
            ELSE IF binary_url # <<>>
                 THEN Binary(binary_url[1], cfg_windows(plat))
            ELSE IF release.zipball_url # NoUrl THEN Source(release.zipball_url)
            ELSE NotFound
      IN <<[name |-> release.name, data |-> data]>>

\* the mutant gives up the scan at the first sidecar that does not parse
RECURSIVE local_scan_break(_, _)
local_scan_break(fsys, i) ==
    IF i > Len(DirOrder) THEN <<>>
    ELSE
      LET name == DirOrder[i]
          side == ron_from_str(fsys[name].ron)
          rest == local_scan_break(fsys, i + 1)
      IN IF fsys[name].dir /\ fsys[name].has_ron
         THEN IF side.ok THEN <<[name |-> name, data |-> side.val]>> \o rest
              ELSE <<>>
         ELSE rest

\* the local-directory scan of VersionManager::update's Err branch
RECURSIVE local_scan(_, _)
local_scan(fsys, i) ==
    IF i > Len(DirOrder) THEN <<>>
    ELSE
      LET name == DirOrder[i]
          side == ron_from_str(fsys[name].ron)
          rest == local_scan(fsys, i + 1)
      IN IF fsys[name].dir /\ fsys[name].has_ron /\ side.ok
         THEN <<[name |-> name, data |-> side.val]>> \o rest
         ELSE rest

\* the versions whose sidecar exists and does not parse ("Corrupted version")
corrupted(fsys) ==
    {n \in DirNames :
        fsys[n].dir /\ fsys[n].has_ron /\ ~ron_from_str(fsys[n].ron).ok}

(* ------------------------------------------------------------------ state *)
VARIABLES
    platform,          \* the build target (cfg!(windows), cfg!(unix), target_os)
    host,              \* what the release host lists
    config,            \* Interface.config: LauncherConfig
    fs,                \* versions/<name>/ on disk
    lua_lib,           \* ~/.luajit/lib exists
    heap,              \* every Arc<Version> ever created: name, data, poisoned
    versions,          \* VersionManager.versions: the catalog, Arc ids
    selected_version,  \* Launcher.selected_version: 0 (None) or an Arc id
    progress,          \* Interface.progress: <<>> (None) or <<permille, label>>
    ui,                \* the UI thread inside Launcher::update
    tasks,             \* the futures spawned by Version::play
    refreshes          \* the futures spawned by VersionManager::update

vars == <<platform, host, config, fs, lua_lib, heap, versions, selected_version,
          progress, ui, tasks, refreshes>>

\* Interface::new: progress: Mutex::new(None)
NoProgress == <<>>
\* Interface::replace_progress(0.0): label format!("{:.1}%", progress * 100.0)
\* labels are texts, and a text is the sequence of its characters
Progress0 == <<0, <<"0", ".", "0", "%">>>>

NoSnapshot == [data |-> NotFound, dir |-> FALSE, has_ron |-> FALSE, ron |-> <<>>]

UiIdle == [pc |-> "idle", ver |-> 0, force |-> FALSE, err |-> "",
           before |-> NoSnapshot, forced |-> <<>>, ran |-> ""]

\* The guard of `if let Some(..) = &*self.interface.progress() {..} else {..}`
\* (main.rs:125) is a temporary of the scrutinee: it lives to the end of the
\* else block, so the UI thread holds the progress lock for the whole of play.
ProgressLocked == ui.pc \in {"play", "blocked"}

\* a panic on the UI thread ends the process
Alive == ui.pc # "panicked"

(* --------------------------------------------------------------- releases *)
UrlBin == "https://host/asset"
UrlZip == "https://host/zipball"

HostResponses ==
    { <<Release("v20", <<Asset("win64", UrlBin), Asset("AppImage", UrlBin)>>, UrlZip),
        Release("v11", <<>>, UrlZip)>>,
      <<Release("v20", <<Asset("other", UrlBin)>>, NoUrl),
        Release(NoName, <<>>, UrlZip),
        Release("v12", <<>>, UrlZip)>> }

InitialDisks(plat) ==
    { [n \in DirNames |-> NoDir],
      [n \in DirNames |->
          IF n = "v20"
          THEN [DirWith(ron_to_string(
                   Local(downloaded_name(plat), Binary(UrlBin, cfg_windows(plat)))))
                EXCEPT !.exe = IF plat = "linux" THEN Mode755 ELSE CreateMode]
          ELSE IF n = "v11" THEN DirWith(CorruptText)
          ELSE EmptyDir] }

\* a refresh future: its position, the fetch outcome, the Vec it builds, the
\* warnings it logged (the fetch error, "Corrupted version <name>"), and, for
\* the record, whether another refresh was in flight with it and the catalog
\* it left behind
NewRefresh ==
    [pc |-> "fetch", ok |-> FALSE, i |-> 1, built |-> <<>>, warned |-> FALSE,
     corrupt |-> {}, overlapped |-> FALSE, result |-> <<>>]

\* Launcher construction (main.rs:43-59): VersionManager::new calls update()
Init ==
    /\ platform \in Platforms
    /\ host \in HostResponses
    /\ config \in [build_unsupported : BOOLEAN,
                   use_prebuilt_when_possible : BOOLEAN,
                   download_lua : BOOLEAN,
                   last_version : {NoName}]
    /\ fs \in InitialDisks(platform)
    /\ lua_lib = FALSE
    /\ heap = <<>>
    /\ versions = <<>>
    /\ selected_version = 0
    /\ progress = NoProgress
    /\ ui = UiIdle
    /\ tasks = <<>>
    /\ refreshes = <<NewRefresh>>

(* ------------------------------------------------- VersionManager::update *)
\* the refresh button (main.rs:104-109)
UpdateCalled ==
    /\ Alive /\ ui.pc = "idle"
    /\ Len(refreshes) < MaxRefresh
    /\ LET busy == \E r \in 1..Len(refreshes) : refreshes[r].pc # "done"
       IN refreshes' =
            Append([r \in 1..Len(refreshes) |->
                      IF refreshes[r].pc # "done"
                      THEN [refreshes[r] EXCEPT !.overlapped = TRUE]
                      ELSE refreshes[r]],
                   [NewRefresh EXCEPT !.overlapped = busy])
    /\ UNCHANGED <<platform, host, config, fs, lua_lib, heap, versions,
                   selected_version, progress, ui, tasks>>

\* octocrab ... .list().send().await: Ok(page) or Err(err) with its warning
Fetch(r) ==
    /\ Alive
    /\ refreshes[r].pc = "fetch"
    /\ \E ok \in BOOLEAN :
         refreshes' = [refreshes EXCEPT ![r] =
            [@ EXCEPT !.ok = ok,
                      !.warned = ~ok,
                      !.pc = IF ~ok THEN "scan"
                             ELSE IF Len(host) = 0 THEN "assign" ELSE "parse"]]
    /\ UNCHANGED <<platform, host, config, fs, lua_lib, heap, versions,
                   selected_version, progress, ui, tasks>>

\* one element of versions.into_iter().filter_map(Version::parse)
ParseRelease(r) ==
    /\ Alive
    /\ refreshes[r].pc = "parse"
    /\ LET i == refreshes[r].i
           v == parse(host[i], fs, config.use_prebuilt_when_possible, platform)
       IN refreshes' = [refreshes EXCEPT ![r] =
            [@ EXCEPT !.built = @ \o v,
                      !.i = i + 1,
                      !.pc = IF i = Len(host) THEN "assign" ELSE "parse"]]
    /\ UNCHANGED <<platform, host, config, fs, lua_lib, heap, versions,
                   selected_version, progress, ui, tasks>>

\* the Err branch: read_dir(versions/) and the sidecar of every entry
Scan(r) ==
    /\ Alive
    /\ refreshes[r].pc = "scan"
    /\ refreshes' = [refreshes EXCEPT ![r] =
            [@ EXCEPT !.built = local_scan(fs, 1),
                      !.corrupt = corrupted(fs),
                      !.pc = "assign"]]
    /\ UNCHANGED <<platform, host, config, fs, lua_lib, heap, versions,
                   selected_version, progress, ui, tasks>>

NewVersion(name, data) == [name |-> name, data |-> data, poisoned |-> FALSE]

\* the mutant extends the catalog it finds instead of replacing it
assigned_extend(old, new) == old \o new

\* the assignment through the guard replaces the whole Vec
assigned(old, new) == new

\* the catalog as the (name, descriptor) entries a reader of the Vec sees
entries(objs, vec) ==
    [k \in 1..Len(vec) |-> [name |-> objs[vec[k]].name, data |-> objs[vec[k]].data]]

\* *versions.lock().unwrap() = <the built Vec>   (mod.rs:33-81)
Assign(r) ==
    /\ Alive
    /\ refreshes[r].pc = "assign"
    /\ LET built == refreshes[r].built
           n == Len(heap)
       IN /\ heap' = heap \o [k \in 1..Len(built) |->
                                 NewVersion(built[k].name, built[k].data)]
          /\ versions' = assigned(versions, [k \in 1..Len(built) |-> n + k])
    /\ refreshes' = [refreshes EXCEPT ![r].pc = "insert"]
    /\ UNCHANGED <<platform, host, config, fs, lua_lib, selected_version,
                   progress, ui, tasks>>

\* versions.lock().unwrap().insert(0, "Latest (Git)")   (mod.rs:82-88)
Insert(r) ==
    /\ Alive
    /\ refreshes[r].pc = "insert"
    /\ heap' = Append(heap, NewVersion(LatestGit, GitLatest))
    /\ versions' = <<Len(heap) + 1>> \o versions
    /\ refreshes' = [refreshes EXCEPT ![r] =
            [@ EXCEPT !.pc = "done", !.result = entries(heap', versions')]]
    /\ UNCHANGED <<platform, host, config, fs, lua_lib, selected_version,
                   progress, ui, tasks>>

(* --------------------------------------------------- Launcher::update (UI) *)
\* VersionManager::try_find (mod.rs:92-99): the first entry of that name, as
\* a sequence of length <= 1
try_find(name) ==
    LET found == {k \in 1..Len(versions) : heap[versions[k]].name = name}
    IN IF found = {} THEN <<>>
       ELSE <<versions[CHOOSE k \in found : \A j \in found : k <= j]>>

\* main.rs:77-81: with nothing selected, the version played last is looked
\* up in the catalog
RestoreSelection ==
    /\ Alive /\ ui.pc = "idle"
    /\ selected_version = 0
    /\ config.last_version # NoName
    /\ try_find(config.last_version) # <<>>
    /\ selected_version' = try_find(config.last_version)[1]
    /\ UNCHANGED <<platform, host, config, fs, lua_lib, heap, versions,
                   progress, ui, tasks, refreshes>>

\* the version ComboBox (main.rs:87-102): selectable_value replaces the
\* handle only when it differs from the entry clicked, and Versions are
\* equal when their names are (version.rs:26-30)
SelectVersion(k) ==
    /\ Alive /\ ui.pc = "idle"
    /\ k \in 1..Len(versions)
    /\ IF selected_version = 0 THEN TRUE
       ELSE heap[selected_version].name # heap[versions[k]].name
    /\ selected_version' = versions[k]
    /\ UNCHANGED <<platform, host, config, fs, lua_lib, heap, versions,
                   progress, ui, tasks, refreshes>>

\* what play() remembers of the state it was called in
Snapshot(v) ==
    [data |-> heap[v].data,
     dir |-> fs[heap[v].name].dir,
     has_ron |-> fs[heap[v].name].has_ron,
     ron |-> fs[heap[v].name].ron]

\* the mutant offers the Play button only while no future is running
PlayOffered_idle ==
    /\ progress = NoProgress
    /\ \A t \in 1..Len(tasks) : tasks[t].end # ""

\* main.rs:125: the Play button is drawn in the else branch of
\* if let Some(..) = &*self.interface.progress()
PlayOffered == progress = NoProgress

\* The Play button (main.rs:135-150) and Version::play up to line 80: the
\* button exists only while progress is None; play unwraps a Local descriptor
\* when force_refresh is set and creates the version directory.
PlayClicked(force_refresh) ==
    /\ Alive /\ ui.pc = "idle"
    /\ PlayOffered
    /\ Len(tasks) < MaxPlays
    /\ IF selected_version = 0
       THEN /\ ui' = [UiIdle EXCEPT !.err = "No version selected"]
            /\ UNCHANGED <<config, heap, fs>>
       ELSE LET v == selected_version
                this == heap[v]
            IN /\ config' = [config EXCEPT !.last_version = this.name]
               /\ IF force_refresh /\ this.poisoned
                  THEN /\ ui' = [UiIdle EXCEPT !.pc = "panicked"]
                       /\ UNCHANGED <<heap, fs>>
                  ELSE /\ heap' = IF force_refresh /\ this.data.tag = "Local"
                                  THEN [heap EXCEPT ![v].data = this.data.origin]
                                  ELSE heap
                       /\ fs' = [fs EXCEPT ![this.name].dir = TRUE]
                       /\ ui' = [pc |-> "play", ver |-> v, force |-> force_refresh,
                                 err |-> "", ran |-> "", before |-> Snapshot(v),
                                 forced |-> IF force_refresh /\ this.data.tag = "Local"
                                            THEN <<this.data.origin>> ELSE <<>>]
    /\ UNCHANGED <<platform, host, lua_lib, versions, selected_version,
                   progress, tasks, refreshes>>

\* the path Version::run_binary resolves, 350-357
run_binary_path(data, plat) ==
    CASE data.tag = "Local" -> <<data.binary>>
      [] data.tag = "GitLatest" -> <<build_output(plat)>>
      [] OTHER -> <<>>

\* the mutant rejects only the first of the two legacy releases
Unsupported_v11(name) == name = "v11"

\* version.rs:178: self.name == "v11" || self.name == "v12"
Unsupported(name) == name = "v11" \/ name = "v12"

NewTask(data) ==
    [ver |-> ui.ver, on |-> data, force |-> ui.force, pc |-> "start",
     end |-> "", failed |-> "", err |-> FALSE, ran |-> "",
     before |-> ui.before, forced |-> ui.forced, wrote |-> <<>>,
     out |-> <<>>, seen |-> <<>>, passed |-> <<>>, logged |-> <<>>,
     length |-> <<>>, body |-> <<>>, received |-> 0,
     trace |-> <<>>]

\* Version::play from line 81: the dispatch on the descriptor read under the
\* lock.  The policy-error arms call interface.progress().take() on the UI
\* thread, which already holds the progress lock.
PlayDispatch ==
    /\ Alive /\ ui.pc = "play"
    /\ LET this == heap[ui.ver]
           data == this.data
           back(e) == [UiIdle EXCEPT !.err = e]
       IN
       IF this.poisoned
       THEN ui' = [UiIdle EXCEPT !.pc = "panicked"] /\ UNCHANGED tasks
       ELSE
       CASE data.tag = "GitLatest" ->
              IF ~config.build_unsupported
              THEN /\ ui' = [ui EXCEPT !.pc = "blocked",
                                !.err = "This version has to be built from source"]
                   /\ UNCHANGED tasks
              ELSE ui' = UiIdle /\ tasks' = Append(tasks, NewTask(data))
         [] data.tag = "Binary" ->
              ui' = UiIdle /\ tasks' = Append(tasks, NewTask(data))
         [] data.tag = "Source" ->
              IF ~config.build_unsupported
              THEN /\ ui' = [ui EXCEPT !.pc = "blocked",
                                !.err = "This version doesn't have prebuilt binaries for your platform"]
                   /\ UNCHANGED tasks
              ELSE IF Unsupported(this.name)
              THEN /\ ui' = back("Versions 0.11 and 0.12 are not supported by the laucher")
                   /\ UNCHANGED tasks
              ELSE ui' = UiIdle /\ tasks' = Append(tasks, NewTask(data))
         [] data.tag = "Local" ->
              \* run_binary on the UI thread: the launch succeeds or fails
              /\ \E ok \in BOOLEAN :
                    ui' = [back(IF ok THEN "" ELSE "Failed to run game executable")
                             EXCEPT !.ran = run_binary_path(data, platform)[1]]
              /\ UNCHANGED tasks
         [] data.tag = "NotFound" ->
              ui' = back("Version files not found or it's not supported on your platform") /\ UNCHANGED tasks
    /\ UNCHANGED <<platform, host, config, fs, lua_lib, heap, versions,
                   selected_version, progress, refreshes>>

(* ------------------------------------------- the futures spawned by play *)
Running(t) == Alive /\ t \in 1..Len(tasks) /\ tasks[t].end = ""
NameOf(t) == heap[tasks[t].ver].name

\* error + interface.progress().take() + return
Abort(t, step) ==
    /\ ~ProgressLocked
    /\ progress' = NoProgress
    /\ tasks' = [tasks EXCEPT ![t] =
          [@ EXCEPT !.pc = "done", !.end = "aborted", !.failed = step, !.err = TRUE]]

\* an unwrap() that panics: the future is dropped where it stands
Panic(t, step) ==
    tasks' = [tasks EXCEPT ![t] =
          [@ EXCEPT !.pc = "done", !.end = "panicked", !.failed = step]]

Goto(t, pc) == tasks' = [tasks EXCEPT ![t].pc = pc]

\* a step that ran to its end: the future moves on and remembers the step
Step(t, name, pc) ==
    tasks' = [tasks EXCEPT ![t] = [@ EXCEPT !.pc = pc, !.trace = Append(@, name)]]

\* a command that failed: the step is remembered and the future gives up
Fail(t, name, step) ==
    /\ ~ProgressLocked
    /\ progress' = NoProgress
    /\ tasks' = [tasks EXCEPT ![t] =
          [@ EXCEPT !.pc = "done", !.end = "aborted", !.failed = step,
                    !.err = TRUE, !.trace = Append(@, name)]]

\* interface.replace_progress(0.0) at the head of every spawned future
TaskStart(t) ==
    /\ Running(t) /\ tasks[t].pc = "start"
    /\ ~ProgressLocked
    /\ progress' = Progress0
    /\ Goto(t, IF tasks[t].on.tag = "GitLatest" THEN "git" ELSE "download")
    /\ UNCHANGED <<platform, host, config, fs, lua_lib, heap, versions,
                   selected_version, ui, refreshes>>

\* the mutant aborts the play when the pull fails
GitStep_strict(t) ==
    /\ Running(t) /\ tasks[t].pc = "git"
    /\ \E success \in BOOLEAN :
         IF ~fs[NameOf(t)].src
         THEN IF success
              THEN /\ fs' = [fs EXCEPT ![NameOf(t)].src = TRUE, ![NameOf(t)].dir = TRUE]
                   /\ Step(t, "clone", "build")
                   /\ UNCHANGED progress
              ELSE Abort(t, "clone") /\ UNCHANGED fs
         ELSE IF success
              THEN Step(t, "pull", "build") /\ UNCHANGED <<fs, progress>>
              ELSE Abort(t, "pull") /\ UNCHANGED fs
    /\ UNCHANGED <<platform, host, config, lua_lib, heap, versions,
                   selected_version, ui, refreshes>>

\* GitLatest arm, version.rs:91-124: clone when there is no checkout, else
\* pull; a failed pull is only reported
GitStep(t) ==
    /\ Running(t) /\ tasks[t].pc = "git"
    /\ \E success \in BOOLEAN :
         IF ~fs[NameOf(t)].src
         THEN IF success
              THEN /\ fs' = [fs EXCEPT ![NameOf(t)].src = TRUE, ![NameOf(t)].dir = TRUE]
                   /\ Step(t, "clone", "build")
                   /\ UNCHANGED progress
              ELSE Abort(t, "clone") /\ UNCHANGED fs
         ELSE /\ Step(t, IF success THEN "pull" ELSE "pull_failed", "build")
              /\ UNCHANGED <<fs, progress>>
    /\ UNCHANGED <<platform, host, config, lua_lib, heap, versions,
                   selected_version, ui, refreshes>>

NeedsLua == config.download_lua /\ ~lua_lib

\* Version::build, 227-246: with download_lua set and no ~/.luajit/lib, wipe
\* the interpreter directory and clone the interpreter into it
LuaClone(t) ==
    /\ Running(t) /\ tasks[t].pc = "build"
    /\ NeedsLua
    /\ \E outcome \in {"ok", "failed", "panicked"} :
         CASE outcome = "ok" -> Step(t, "lua_clone", "lua_make") /\ UNCHANGED progress
           [] outcome = "failed" -> Fail(t, "lua_clone_failed", "build")
           [] outcome = "panicked" -> Panic(t, "lua_dir") /\ UNCHANGED progress
    /\ UNCHANGED <<platform, host, config, fs, lua_lib, heap, versions,
                   selected_version, ui, refreshes>>

\* the mutant goes on to install although make failed
LuaMake_lenient(t) ==
    /\ Running(t) /\ tasks[t].pc = "lua_make"
    /\ \E success \in BOOLEAN :
         /\ Step(t, IF success THEN "lua_make" ELSE "lua_make_failed", "lua_install")
         /\ UNCHANGED progress
    /\ UNCHANGED <<platform, host, config, fs, lua_lib, heap, versions,
                   selected_version, ui, refreshes>>

\* Version::build, 248-259: make in the interpreter directory
LuaMake(t) ==
    /\ Running(t) /\ tasks[t].pc = "lua_make"
    /\ \E success \in BOOLEAN :
         IF success
         THEN Step(t, "lua_make", "lua_install") /\ UNCHANGED progress
         ELSE Fail(t, "lua_make_failed", "build")
    /\ UNCHANGED <<platform, host, config, fs, lua_lib, heap, versions,
                   selected_version, ui, refreshes>>

\* Version::build, 261-274: make install PREFIX=~/.luajit/lib; a failed
\* install may or may not have created the lib directory
LuaInstall(t) ==
    /\ Running(t) /\ tasks[t].pc = "lua_install"
    /\ \E success \in BOOLEAN, left \in BOOLEAN :
         IF success
         THEN /\ left
              /\ lua_lib' = TRUE
              /\ Step(t, "lua_install", "configure") /\ UNCHANGED progress
         ELSE lua_lib' = (lua_lib \/ left) /\ Fail(t, "lua_install_failed", "build")
    /\ UNCHANGED <<platform, host, config, fs, heap, versions,
                   selected_version, ui, refreshes>>

(* the line callback of the compile step, version.rs:310-319, on texts *)
\* str::strip_prefix(char): Option<&str> as a sequence of length <= 1
strip_prefix(s, c) ==
    IF Len(s) > 0 /\ s[1] = c THEN <<Tail(s)>> ELSE <<>>

\* str::strip_suffix(char)
strip_suffix(s, c) ==
    IF Len(s) > 0 /\ s[Len(s)] = c THEN <<SubSeq(s, 1, Len(s) - 1)>> ELSE <<>>

\* str::split_once(char): the text before the first occurrence
split_once(s, c) ==
    IF \E i \in 1..Len(s) : s[i] = c
    THEN LET i == CHOOSE i \in 1..Len(s) :
                    s[i] = c /\ \A j \in 1..(i - 1) : s[j] # c
         IN <<[before |-> SubSeq(s, 1, i - 1), after |-> SubSeq(s, i + 1, Len(s))]>>
    ELSE <<>>

\* str::trim: the text without its leading and trailing white space
RECURSIVE trim(_)
trim(s) ==
    IF Len(s) > 0 /\ s[1] = " " THEN trim(Tail(s))
    ELSE IF Len(s) > 0 /\ s[Len(s)] = " " THEN trim(SubSeq(s, 1, Len(s) - 1))
    ELSE s

Digits == <<"0", "1", "2", "3", "4", "5", "6", "7", "8", "9">>
IsDigit(c) == \E d \in 1..Len(Digits) : Digits[d] = c
DigitOf(c) == (CHOOSE d \in 1..Len(Digits) : Digits[d] = c) - 1

I32Min == -2147483647 - 1
I32Max == 2147483647

\* the digit loop of str::parse::<i32>: checked multiply and add (or subtract)
RECURSIVE i32_digits(_, _, _)
i32_digits(s, acc, sign) ==
    IF s = <<>> THEN <<acc>>
    ELSE IF ~IsDigit(s[1]) THEN <<>>
    ELSE LET next == acc * 10 + sign * DigitOf(s[1])
         IN IF next < I32Min \/ next > I32Max THEN <<>>
            ELSE i32_digits(Tail(s), next, sign)

\* the mutant reads the digits as a fraction of ten instead of a hundred
parse_i32_tenths(s) ==
    IF s = <<>> THEN <<>>
    ELSE IF s[1] \in {"+", "-"}
         THEN IF Len(s) = 1 THEN <<>>
              ELSE i32_digits(Tail(s), 0, IF s[1] = "-" THEN -10 ELSE 10)
         ELSE i32_digits(s, 0, 10)

\* str::parse::<i32>: an optional sign, then at least one digit
parse_i32(s) ==
    IF s = <<>> THEN <<>>
    ELSE IF s[1] \in {"+", "-"}
         THEN IF Len(s) = 1 THEN <<>>
              ELSE i32_digits(Tail(s), 0, IF s[1] = "-" THEN -1 ELSE 1)
         ELSE i32_digits(s, 0, 1)

\* 311-315: strip_prefix('['), split_once(']'), trim, strip_suffix('%'),
\* trim, parse::<i32>().ok()
percentage(line) ==
    LET rest == strip_prefix(line, "[")
        parts == IF rest = <<>> THEN <<>> ELSE split_once(rest[1], "]")
        number == IF parts = <<>> THEN <<>>
                  ELSE strip_suffix(trim(parts[1].before), "%")
    IN IF number = <<>> THEN <<>> ELSE parse_i32(trim(number[1]))

\* 317: interface.set_progress(percentage as f32 / 100.0, line), in permille
line_callback(line, prog) ==
    IF percentage(line) = <<>> THEN prog
    ELSE <<percentage(line)[1] * 10, line>>

\* "[ 42%] Building CXX object foo.cpp.o", shortened to its first word
BuildLine ==
    <<"[", " ", "4", "2", "%", "]", " ", "B", "u", "i", "l", "d", "i", "n", "g">>

\* the items of a ProcessLineStream (utils.rs:74-95), and the command that
\* could not be started (utils.rs:65-71)
Stdout(text) == [kind |-> "Stdout", text |-> text]
Stderr(text) == [kind |-> "Stderr", text |-> text]
Done(status) == [kind |-> "Done", status |-> status]
NotStarted == [kind |-> "NotStarted"]

\* ExitStatus::success(), a non-success status, Err(err)
Statuses == {"ok", "nonzero", "unobtainable"}

\* what cmake --build yields: its exit alone, or one progress line first
CompileOutputs ==
    { <<Done("ok")>>, <<Stdout(BuildLine), Done("ok")>>, <<Done("nonzero")>> }

\* str::contains(&str)
contains(text, pattern) ==
    \E i \in 1..(Len(text) - Len(pattern) + 1) :
        SubSeq(text, i, i + Len(pattern) - 1) = pattern

CloningInto == <<"C", "l", "o", "n", "i", "n", "g", " ", "i", "n", "t", "o">>

\* the mutant starts the compile step whatever configure returned
Configure_lenient(t) ==
    /\ Running(t)
    /\ \/ tasks[t].pc = "configure"
       \/ tasks[t].pc = "build" /\ ~NeedsLua
    /\ \E outcome \in {"ok", "failed"}, out \in CompileOutputs :
         tasks' = [tasks EXCEPT ![t] =
                     [@ EXCEPT !.pc = "compile", !.out = out,
                               !.trace = IF outcome = "ok"
                                         THEN Append(@, "configure") ELSE @]]
    /\ UNCHANGED <<platform, host, config, fs, lua_lib, heap, versions,
                   selected_version, progress, ui, refreshes>>

\* Version::build, 276-303: with download_lua set, CMakeLists.txt is patched
\* (two unwraps); then cmake -DCMAKE_BUILD_TYPE=Release -Bbuild.  When it
\* succeeds, cmake --build is spawned and what its stream will yield is fixed.
Configure(t) ==
    /\ Running(t)
    /\ \/ tasks[t].pc = "configure"
       \/ tasks[t].pc = "build" /\ ~NeedsLua
    /\ \E outcome \in {"ok", "failed", "panicked"} :
         CASE outcome = "ok" ->
                /\ \E out \in CompileOutputs :
                     tasks' = [tasks EXCEPT ![t] =
                                 [@ EXCEPT !.pc = "compile", !.out = out,
                                           !.trace = Append(@, "configure")]]
                /\ UNCHANGED progress
           [] outcome = "failed" -> Abort(t, "build")
           [] outcome = "panicked" ->
                /\ config.download_lua
                /\ Panic(t, "patch") /\ UNCHANGED progress
    /\ UNCHANGED <<platform, host, config, fs, lua_lib, heap, versions,
                   selected_version, ui, refreshes>>

\* the mutant logs every line of stderr
log_line_all(text, log) == Append(log, [level |-> "stderr", text |-> text])

\* utils.rs:78-82: a stderr line is logged unless it contains "Cloning into"
log_line(text, log) ==
    IF contains(text, CloningInto) THEN log
    ELSE Append(log, [level |-> "stderr", text |-> text])

\* utils.rs:76-82, one Item::Stdout or Item::Stderr of the compile command:
\* stdout goes to the line callback of version.rs:310-319, which takes the
\* progress lock only for a line it matches; stderr goes to the log
CompileLine(t) ==
    /\ Running(t) /\ tasks[t].pc = "compile"
    /\ tasks[t].out # <<>>
    /\ LET item == Head(tasks[t].out)
       IN /\ item.kind \in {"Stdout", "Stderr"}
          /\ IF item.kind = "Stdout"
             THEN /\ percentage(item.text) # <<>> => ~ProgressLocked
                  /\ progress' = line_callback(item.text, progress)
                  /\ tasks' = [tasks EXCEPT ![t] =
                        [@ EXCEPT !.out = Tail(@), !.seen = Append(@, item),
                                  !.passed = Append(@, item.text)]]
             ELSE /\ UNCHANGED progress
                  /\ tasks' = [tasks EXCEPT ![t] =
                        [@ EXCEPT !.out = Tail(@), !.seen = Append(@, item),
                                  !.logged = log_line(item.text, @)]]
    /\ UNCHANGED <<platform, host, config, fs, lua_lib, heap, versions,
                   selected_version, ui, refreshes>>

\* the mutant has the GitLatest arm end in finish() as the Source arm does
AfterBuild_finish(tag) == "finish"

\* what follows a successful build: 131-132 (GitLatest) or 205-208 (Source)
AfterBuild(tag) == IF tag = "GitLatest" THEN "clear" ELSE "finish"

\* interface.error of run_command: utils.rs:68, 86 and 91
command_error(item) ==
    [level |-> "error",
     text |-> IF item.kind = "Done" /\ item.status = "nonzero"
              THEN "Failed to run command!" ELSE "Failed to run command: {}"]

\* utils.rs:65-71 and 83-97, then version.rs:321-326 and the caller's
\* `if !this.build(..).await`: the command did not start, or its stream ends
\* with Item::Done; any failure is reported once and is the play's end
CompileDone(t) ==
    /\ Running(t) /\ tasks[t].pc = "compile"
    /\ tasks[t].out # <<>>
    /\ LET item == Head(tasks[t].out)
       IN /\ item.kind \in {"NotStarted", "Done"}
          /\ IF item.kind = "Done" /\ item.status = "ok"
             THEN /\ tasks' = [tasks EXCEPT ![t] =
                        [@ EXCEPT !.pc = AfterBuild(tasks[t].on.tag),
                                  !.out = Tail(@), !.seen = Append(@, item),
                                  !.trace = Append(@, "compile")]]
                  /\ UNCHANGED progress
             ELSE /\ ~ProgressLocked
                  /\ progress' = NoProgress
                  /\ tasks' = [tasks EXCEPT ![t] =
                        [@ EXCEPT !.pc = "done", !.end = "aborted",
                                  !.failed = "build", !.err = TRUE,
                                  !.out = Tail(@), !.seen = Append(@, item),
                                  !.logged = Append(@, command_error(item))]]
    /\ UNCHANGED <<platform, host, config, fs, lua_lib, heap, versions,
                   selected_version, ui, refreshes>>

\* utils::download: the chunks set progress only when the length is known
Download(t) ==
    /\ Running(t) /\ tasks[t].pc = "download"
    /\ \E success \in BOOLEAN, known \in BOOLEAN :
         IF success
         THEN /\ Goto(t, IF tasks[t].on.tag = "Binary" THEN "store" ELSE "unpack")
              /\ IF known
                 THEN ~ProgressLocked /\ progress' = <<1000, <<"1", "0", "0", ".", "0", "%">>>>
                 ELSE UNCHANGED progress
         ELSE Abort(t, "download")
    /\ UNCHANGED <<platform, host, config, fs, lua_lib, heap, versions,
                   selected_version, ui, refreshes>>

(* utils::download followed chunk by chunk, utils.rs:5-37 *)
RECURSIVE decimal(_)
\* the decimal digits of a natural number
decimal(n) ==
    IF n < 10 THEN <<Digits[n + 1]>>
    ELSE Append(decimal(n \div 10), Digits[(n % 10) + 1])

\* Interface::replace_progress(progress as f32 / length as f32), main.rs:
\* 312-314: the fraction in permille, rounded as {:.1} rounds the label
replace_progress(received, length) ==
    LET permille == (2000 * received + length) \div (2 * length)
    IN <<permille,
         decimal(permille \div 10) \o <<".", Digits[(permille % 10) + 1], "%">>>>

RECURSIVE Sum(_)
Sum(sizes) == IF sizes = <<>> THEN 0 ELSE Head(sizes) + Sum(Tail(sizes))

\* the bodies a response delivers: up to MaxChunks chunks of one or two bytes
Bodies ==
    UNION {[1..n -> 1..2] : n \in 0..MaxChunks}

\* 6-18: send() answers or fails; content_length() is the length of the body
\* or None
Send(t) ==
    /\ Running(t) /\ tasks[t].pc = "download"
    /\ \E ok \in BOOLEAN, body \in Bodies, known \in BOOLEAN :
         IF ok
         THEN /\ tasks' = [tasks EXCEPT ![t] =
                    [@ EXCEPT !.pc = "chunks", !.body = body, !.received = 0,
                              !.length = IF known THEN <<Sum(body)>> ELSE <<>>]]
              /\ UNCHANGED progress
         ELSE Abort(t, "download")
    /\ UNCHANGED <<platform, host, config, fs, lua_lib, heap, versions,
                   selected_version, ui, refreshes>>

\* 19-26: one response.chunk().await?: a chunk, the end of the body, or an
\* error
Chunk(t) ==
    /\ Running(t) /\ tasks[t].pc = "chunks"
    /\ \E ok \in BOOLEAN :
         IF ~ok THEN Abort(t, "download")
         ELSE IF tasks[t].body = <<>>
         THEN /\ Goto(t, IF tasks[t].on.tag = "Binary" THEN "store" ELSE "unpack")
              /\ UNCHANGED progress
         ELSE LET progress_ == tasks[t].received + Head(tasks[t].body)
              IN /\ tasks' = [tasks EXCEPT ![t] =
                        [@ EXCEPT !.body = Tail(@), !.received = progress_]]
                 /\ IF tasks[t].length # <<>>
                    THEN /\ ~ProgressLocked
                         /\ progress' = replace_progress(progress_, tasks[t].length[1])
                    ELSE UNCHANGED progress
    /\ UNCHANGED <<platform, host, config, fs, lua_lib, heap, versions,
                   selected_version, ui, refreshes>>

AfterStore == IF platform = "linux" THEN "chmod" ELSE "finish"

\* File::create (153): a new file gets the creation mode, an existing file is
\* truncated and keeps its mode
created(mode) == IF mode = NoFile THEN CreateMode ELSE mode

\* Binary arm, 147-156: unpack the archive (whose entries are not followed
\* here) or write the raw executable
Store(t) ==
    /\ Running(t) /\ tasks[t].pc = "store"
    /\ \E success \in BOOLEAN :
         IF success
         THEN /\ Goto(t, AfterStore) /\ UNCHANGED progress
              /\ fs' = IF tasks[t].on.unzip THEN fs
                       ELSE [fs EXCEPT ![NameOf(t)].exe = created(@)]
         ELSE /\ UNCHANGED fs
              /\ IF tasks[t].on.unzip
                 THEN Abort(t, "unpack")
                 ELSE Panic(t, "write") /\ UNCHANGED progress
    /\ UNCHANGED <<platform, host, config, lua_lib, heap, versions,
                   selected_version, ui, refreshes>>

\* Binary arm, 158-166: set_permissions(0o755).unwrap(), target_os = "linux"
Chmod(t) ==
    /\ Running(t) /\ tasks[t].pc = "chmod"
    /\ \E success \in BOOLEAN :
         IF success
         THEN Goto(t, "finish") /\ fs' = [fs EXCEPT ![NameOf(t)].exe = Mode755]
         ELSE Panic(t, "chmod") /\ UNCHANGED fs
    /\ UNCHANGED <<platform, host, config, lua_lib, heap, versions,
                   selected_version, progress, ui, refreshes>>

\* Source arm, 195-199
Unpack(t) ==
    /\ Running(t) /\ tasks[t].pc = "unpack"
    /\ \E success \in BOOLEAN :
         IF success
         THEN Goto(t, "build") /\ UNCHANGED progress
         ELSE Abort(t, "unpack")
    /\ UNCHANGED <<platform, host, config, fs, lua_lib, heap, versions,
                   selected_version, ui, refreshes>>

\* the binary path each arm hands to finish(): 168 and 205-208
FinishBinary(tag, plat) ==
    IF tag = "Binary" THEN downloaded_name(plat) ELSE build_output(plat)

\* Version::finish, 330-342: under the descriptor lock, wrap the current
\* descriptor and write it to version.ron; the write's unwrap() panics with
\* the lock held, which poisons it.
Finish(t) ==
    /\ Running(t) /\ tasks[t].pc = "finish"
    /\ LET v == tasks[t].ver
           this == heap[v]
           data == Local(FinishBinary(tasks[t].on.tag, platform), this.data)
       IN IF this.poisoned
          THEN Panic(t, "lock") /\ UNCHANGED <<heap, fs>>
          ELSE \E success \in BOOLEAN :
                 IF success
                 THEN /\ heap' = [heap EXCEPT ![v].data = data]
                      /\ fs' = [fs EXCEPT ![this.name] =
                                  [@ EXCEPT !.dir = TRUE, !.has_ron = TRUE,
                                            !.ron = ron_to_string(data)]]
                      /\ tasks' = [tasks EXCEPT ![t] =
                                  [@ EXCEPT !.pc = "clear", !.wrote = <<data>>]]
                 ELSE /\ heap' = [heap EXCEPT ![v].data = data, ![v].poisoned = TRUE]
                      /\ Panic(t, "sidecar")
                      /\ UNCHANGED fs
    /\ UNCHANGED <<platform, host, config, lua_lib, versions,
                   selected_version, progress, ui, refreshes>>

\* interface.progress().take() before run_binary: 131 and 344
Clear(t) ==
    /\ Running(t) /\ tasks[t].pc = "clear"
    /\ ~ProgressLocked
    /\ progress' = NoProgress
    /\ Goto(t, "run")
    /\ UNCHANGED <<platform, host, config, fs, lua_lib, heap, versions,
                   selected_version, ui, refreshes>>

\* the launch, in a task: Version::run_binary, 348-366
\* the mutant undoes finish when the executable cannot be spawned
Run_revert(t) ==
    /\ Running(t) /\ tasks[t].pc = "run"
    /\ LET v == tasks[t].ver
           this == heap[v]
           binary == run_binary_path(this.data, platform)
       IN IF this.poisoned
          THEN Panic(t, "lock") /\ UNCHANGED <<heap, fs>>
          ELSE IF binary = <<>>
          THEN /\ tasks' = [tasks EXCEPT ![t] =
                  [@ EXCEPT !.pc = "done", !.end = "no_binary", !.err = TRUE]]
               /\ UNCHANGED <<heap, fs>>
          ELSE \E spawned \in BOOLEAN :
                 /\ tasks' = [tasks EXCEPT ![t] =
                      [@ EXCEPT !.pc = "done", !.ran = binary[1],
                                !.end = IF spawned THEN "launched" ELSE "launch_failed",
                                !.err = ~spawned]]
                 /\ IF spawned \/ this.data.tag # "Local"
                    THEN UNCHANGED <<heap, fs>>
                    ELSE /\ heap' = [heap EXCEPT ![v].data = this.data.origin]
                         /\ fs' = [fs EXCEPT ![this.name].has_ron = FALSE,
                                             ![this.name].ron = <<>>]
    /\ UNCHANGED <<platform, host, config, lua_lib, versions,
                   selected_version, progress, ui, refreshes>>

Run(t) ==
    /\ Running(t) /\ tasks[t].pc = "run"
    /\ LET this == heap[tasks[t].ver]
           binary == run_binary_path(this.data, platform)
       IN IF this.poisoned
          THEN Panic(t, "lock")
          ELSE IF binary = <<>>
          THEN tasks' = [tasks EXCEPT ![t] =
                  [@ EXCEPT !.pc = "done", !.end = "no_binary", !.err = TRUE]]
          ELSE \E spawned \in BOOLEAN :
                 tasks' = [tasks EXCEPT ![t] =
                  [@ EXCEPT !.pc = "done", !.ran = binary[1],
                            !.end = IF spawned THEN "launched" ELSE "launch_failed",
                            !.err = ~spawned]]
    /\ UNCHANGED <<platform, host, config, fs, lua_lib, heap, versions,
                   selected_version, progress, ui, refreshes>>

(* ------------------------------------------------------------ the program *)
\* the catalog refresh alone: the user only ever presses the refresh button
NextRefresh ==
    \/ UpdateCalled
    \/ \E r \in 1..Len(refreshes) : Fetch(r)
    \/ \E r \in 1..Len(refreshes) : ParseRelease(r)
    \/ \E r \in 1..Len(refreshes) : Scan(r)
    \/ \E r \in 1..Len(refreshes) : Assign(r)
    \/ \E r \in 1..Len(refreshes) : Insert(r)

\* the interpreter pre-step of Version::build
NextLua ==
    \/ \E t \in 1..Len(tasks) : LuaClone(t)
    \/ \E t \in 1..Len(tasks) : LuaMake(t)
    \/ \E t \in 1..Len(tasks) : LuaInstall(t)

\* the constructor's refresh and the plays: the refresh button is never pressed
NextPlay ==
    \/ \E r \in 1..Len(refreshes) : Fetch(r)
    \/ \E r \in 1..Len(refreshes) : ParseRelease(r)
    \/ \E r \in 1..Len(refreshes) : Scan(r)
    \/ \E r \in 1..Len(refreshes) : Assign(r)
    \/ \E r \in 1..Len(refreshes) : Insert(r)
    \/ \E k \in 1..Len(versions) : SelectVersion(k)
    \/ \E force_refresh \in BOOLEAN : PlayClicked(force_refresh)
    \/ PlayDispatch
    \/ \E t \in 1..Len(tasks) : TaskStart(t)
    \/ \E t \in 1..Len(tasks) : GitStep(t)
    \/ \E t \in 1..Len(tasks) : Configure(t)
    \/ \E t \in 1..Len(tasks) : CompileLine(t)
    \/ \E t \in 1..Len(tasks) : CompileDone(t)
    \/ \E t \in 1..Len(tasks) : Download(t)
    \/ \E t \in 1..Len(tasks) : Store(t)
    \/ \E t \in 1..Len(tasks) : Chmod(t)
    \/ \E t \in 1..Len(tasks) : Unpack(t)
    \/ \E t \in 1..Len(tasks) : Finish(t)
    \/ \E t \in 1..Len(tasks) : Clear(t)
    \/ \E t \in 1..Len(tasks) : Run(t)

\* the steps of utils::download when it is followed chunk by chunk
NextChunks ==
    \/ \E t \in 1..Len(tasks) : Send(t)
    \/ \E t \in 1..Len(tasks) : Chunk(t)

Next == UpdateCalled \/ RestoreSelection \/ NextPlay \/ NextLua \/ NextChunks

\* the whole program
Spec == Init /\ [][Next]_vars

\* refreshes that overlap, no play
SpecRefresh == Init /\ [][NextRefresh]_vars

\* the launcher as configured by default: download_lua off (main.rs:193-214)
InitPlay == Init /\ ~config.download_lua

\* plays that overlap, after the one refresh of the constructor, with the
\* interpreter pre-step switched off
SpecPlay == InitPlay /\ [][NextPlay]_vars

(* ------------------------------------- Version::parse on its own inputs *)
AssetLists ==
    { <<>>,
      <<Asset("other", "https://host/other")>>,
      <<Asset("win64", "https://host/win64")>>,
      <<Asset("other", "https://host/other"), Asset("AppImage", "https://host/appimage")>>,
      <<Asset("AppImage", "https://host/appimage"), Asset("win64", "https://host/win64"),
        Asset("AppImage", "https://host/appimage2")>> }

ParseHosts ==
    { <<Release(n, a, z)>> : n \in {"v20", NoName}, a \in AssetLists, z \in {NoUrl, UrlZip} }

ParseDisks(plat) ==
    { [n \in DirNames |-> IF n = "v20" THEN d ELSE NoDir] :
        d \in { NoDir, EmptyDir, DirWith(CorruptText),
                DirWith(ron_to_string(GitLatest)),
                DirWith(ron_to_string(Source(UrlZip))),
                DirWith(ron_to_string(
                    Local(downloaded_name(plat), Binary(UrlBin, cfg_windows(plat))))) } }

InitParse ==
    /\ platform \in Platforms
    /\ host \in ParseHosts
    /\ config \in [build_unsupported : {TRUE},
                   use_prebuilt_when_possible : BOOLEAN,
                   download_lua : {FALSE},
                   last_version : {NoName}]
    /\ fs \in ParseDisks(platform)
    /\ lua_lib = FALSE
    /\ heap = <<>>
    /\ versions = <<>>
    /\ selected_version = 0
    /\ progress = NoProgress
    /\ ui = UiIdle
    /\ tasks = <<>>
    /\ refreshes = <<NewRefresh>>

NextParse ==
    \/ \E r \in 1..Len(refreshes) : Fetch(r)
    \/ \E r \in 1..Len(refreshes) : ParseRelease(r)
    \/ \E r \in 1..Len(refreshes) : Scan(r)
    \/ \E r \in 1..Len(refreshes) : Assign(r)
    \/ \E r \in 1..Len(refreshes) : Insert(r)

\* one refresh over every shape of release, sidecar, flag and target
SpecParse == InitParse /\ [][NextParse]_vars

(* ------------------------------------- after a failed sidecar write *)
\* Earlier plays have ended and their futures are gone: one, of v20 from its
\* binary asset, panicked in finish on the sidecar write (version.rs:337-341),
\* which left v20 Local in memory, no sidecar, and the descriptor lock
\* poisoned; another aborted and cleared progress.  v20 is still selected and
\* the refresh button has just been pressed.
InitPoisoned ==
    /\ platform = "linux"
    /\ host = <<Release("v20", <<Asset("win64", UrlBin), Asset("AppImage", UrlBin)>>, UrlZip),
                Release("v11", <<>>, UrlZip)>>
    /\ config \in [build_unsupported : {TRUE},
                   use_prebuilt_when_possible : BOOLEAN,
                   download_lua : {FALSE},
                   last_version : {"v20"}]
    /\ fs = [n \in DirNames |->
               IF n = "v20" THEN [EmptyDir EXCEPT !.exe = Mode755] ELSE NoDir]
    /\ lua_lib = FALSE
    /\ heap = <<[NewVersion("v20",
                    Local(downloaded_name(platform), Binary(UrlBin, FALSE)))
                 EXCEPT !.poisoned = TRUE]>>
    /\ versions = <<1>>
    /\ selected_version = 1
    /\ progress = NoProgress
    /\ ui = UiIdle
    /\ tasks = <<>>
    /\ refreshes = <<NewRefresh>>

SpecPoisoned == InitPoisoned /\ [][NextPlay]_vars

(* --------------------------- sidecars written and read back on their own *)
\* every descriptor over the field values the program produces on a target
PlainValues ==
    {GitLatest, NotFound}
        \cup {Binary(u, z) : u \in {UrlBin, UrlZip, NoUrl}, z \in BOOLEAN}
        \cup {Source(u) : u \in {UrlBin, UrlZip, NoUrl}}

RonValues(plat) ==
    PlainValues
        \cup {Local(b, o) : b \in {downloaded_name(plat), build_output(plat)},
                            o \in PlainValues}

\* v20 holds a descriptor in memory and its sidecar is that descriptor as
\* ron::to_string writes it (version.rs:337-341); the host lists v20 bare
InitRon ==
    /\ platform \in Platforms
    /\ host = <<Release("v20", <<>>, NoUrl)>>
    /\ config = [build_unsupported |-> TRUE, use_prebuilt_when_possible |-> TRUE,
                 download_lua |-> FALSE, last_version |-> NoName]
    /\ \E d \in RonValues(platform) :
         /\ heap = <<NewVersion("v20", d)>>
         /\ fs = [n \in DirNames |->
                    IF n = "v20" THEN DirWith(ron_to_string(d)) ELSE NoDir]
    /\ lua_lib = FALSE
    /\ versions = <<1>>
    /\ selected_version = 0
    /\ progress = NoProgress
    /\ ui = UiIdle
    /\ tasks = <<>>
    /\ refreshes = <<NewRefresh>>

\* one refresh, on either path, reads the sidecar back
SpecRon == InitRon /\ [][NextParse]_vars

(* ------------------------------- the compile step's line callback alone *)
MaxLineLen == 5

LineAlphabet == {"[", "]", "%", " ", "4", "-", "x"}

Lines == UNION { [1..n -> LineAlphabet] : n \in 0..MaxLineLen }

\* a build of v20 from its source archive is in its compile step, the
\* compiler is about to print one line, and progress shows the download's end
InitLine ==
    /\ platform \in Platforms
    /\ host = <<Release("v20", <<>>, UrlZip)>>
    /\ config = [build_unsupported |-> TRUE, use_prebuilt_when_possible |-> TRUE,
                 download_lua |-> FALSE, last_version |-> "v20"]
    /\ fs = [n \in DirNames |-> IF n = "v20" THEN EmptyDir ELSE NoDir]
    /\ lua_lib = FALSE
    /\ heap = <<NewVersion("v20", Source(UrlZip)), NewVersion(LatestGit, GitLatest)>>
    /\ versions = <<2, 1>>
    /\ selected_version = 1
    /\ progress = Progress0
    /\ ui = UiIdle
    /\ \E line \in Lines :
         tasks = <<[NewTask(Source(UrlZip)) EXCEPT
                      !.ver = 1, !.pc = "compile",
                      !.out = <<Stdout(line), Done("ok")>>,
                      !.trace = <<"configure">>,
                      !.before = Snapshot(1)]>>
    /\ refreshes = <<[NewRefresh EXCEPT !.pc = "done", !.ok = TRUE]>>

NextLine ==
    \/ \E t \in 1..Len(tasks) : CompileLine(t)
    \/ \E t \in 1..Len(tasks) : CompileDone(t)

\* every line of bounded length over the alphabet, through the callback
SpecLine == InitLine /\ [][NextLine]_vars

(* ---------------------------------------------- Version::build alone *)
\* Builds have reached Version::build: of the Git checkout, of v20's unpacked
\* source archive, or of both at once, with download_lua as configured and
\* ~/.luajit/lib there or not.
InitBuild ==
    /\ platform \in Platforms
    /\ host = <<Release("v20", <<>>, UrlZip)>>
    /\ config \in [build_unsupported : {TRUE},
                   use_prebuilt_when_possible : {TRUE},
                   download_lua : BOOLEAN,
                   last_version : {"v20"}]
    /\ fs = [n \in DirNames |->
               IF n = "v20" THEN EmptyDir
               ELSE IF n = LatestGit THEN [EmptyDir EXCEPT !.src = TRUE]
               ELSE NoDir]
    /\ lua_lib \in BOOLEAN
    /\ heap = <<NewVersion("v20", Source(UrlZip)), NewVersion(LatestGit, GitLatest)>>
    /\ versions = <<2, 1>>
    /\ selected_version = 1
    /\ progress = Progress0
    /\ ui = UiIdle
    /\ LET source == [NewTask(Source(UrlZip)) EXCEPT
                        !.ver = 1, !.pc = "build", !.before = Snapshot(1)]
           git == [NewTask(GitLatest) EXCEPT
                        !.ver = 2, !.pc = "build", !.before = Snapshot(2),
                        !.trace = <<"clone">>]
       IN tasks \in {<<source>>, <<git>>, <<source, git>>}
    /\ refreshes = <<[NewRefresh EXCEPT !.pc = "done", !.ok = TRUE]>>

NextBuild ==
    \/ NextLua
    \/ \E t \in 1..Len(tasks) : Configure(t)
    \/ \E t \in 1..Len(tasks) : CompileLine(t)
    \/ \E t \in 1..Len(tasks) : CompileDone(t)

SpecBuild == InitBuild /\ [][NextBuild]_vars

(* ------------------------------------ release lists with namesakes *)
\* GitHub keeps tags unique, not release names: two releases may carry one
\* name, and a release may be named like the entry update() inserts.
NamesakeResponses ==
    { <<Release("v20", <<Asset("win64", UrlBin), Asset("AppImage", UrlBin)>>, UrlZip),
        Release("v20", <<>>, UrlZip)>>,
      <<Release(LatestGit, <<>>, UrlZip),
        Release("v20", <<>>, UrlZip)>> }

InitNames ==
    /\ platform \in Platforms
    /\ host \in HostResponses \cup NamesakeResponses
    /\ config \in [build_unsupported : {TRUE},
                   use_prebuilt_when_possible : BOOLEAN,
                   download_lua : {FALSE},
                   last_version : {NoName}]
    /\ fs \in InitialDisks(platform)
    /\ lua_lib = FALSE
    /\ heap = <<>>
    /\ versions = <<>>
    /\ selected_version = 0
    /\ progress = NoProgress
    /\ ui = UiIdle
    /\ tasks = <<>>
    /\ refreshes = <<NewRefresh>>

SpecNames == InitNames /\ [][NextRefresh]_vars

(* ------------------------------- plays and refreshes of one release *)
\* One release, v20, with a prebuilt asset and a source archive; nothing on
\* disk; the configuration forbids builds from source, so that a play either
\* downloads the prebuilt binary or is refused, and it may name v20 as the
\* version played last.
InitStale ==
    /\ platform = "linux"
    /\ host = <<Release("v20", <<Asset("win64", UrlBin), Asset("AppImage", UrlBin)>>, UrlZip)>>
    /\ config \in [build_unsupported : {FALSE},
                   use_prebuilt_when_possible : {TRUE},
                   download_lua : {FALSE},
                   last_version : {NoName, "v20"}]
    /\ fs = [n \in DirNames |-> NoDir]
    /\ lua_lib = FALSE
    /\ heap = <<>>
    /\ versions = <<>>
    /\ selected_version = 0
    /\ progress = NoProgress
    /\ ui = UiIdle
    /\ tasks = <<>>
    /\ refreshes = <<NewRefresh>>

\* the refresh button, the selection, and the plays of a prebuilt binary
NextStale ==
    \/ NextRefresh
    \/ RestoreSelection
    \/ \E k \in 1..Len(versions) : SelectVersion(k)
    \/ \E force_refresh \in BOOLEAN : PlayClicked(force_refresh)
    \/ PlayDispatch
    \/ \E t \in 1..Len(tasks) : TaskStart(t)
    \/ \E t \in 1..Len(tasks) : Download(t)
    \/ \E t \in 1..Len(tasks) : Store(t)
    \/ \E t \in 1..Len(tasks) : Chmod(t)
    \/ \E t \in 1..Len(tasks) : Finish(t)
    \/ \E t \in 1..Len(tasks) : Clear(t)
    \/ \E t \in 1..Len(tasks) : Run(t)

SpecStale == InitStale /\ [][NextStale]_vars

(* --------------------------------------- downloads, chunk by chunk *)
\* The catalog holds v20 with a prebuilt asset for the target, or with a
\* source archive only; nothing is on disk and no play has been made.
InitDownload ==
    /\ platform \in {"windows", "linux"}
    /\ host \in {<<Release("v20", <<Asset("win64", UrlBin), Asset("AppImage", UrlBin)>>, UrlZip)>>,
                 <<Release("v20", <<>>, UrlZip)>>}
    /\ config = [build_unsupported |-> TRUE,
                 use_prebuilt_when_possible |-> TRUE,
                 download_lua |-> FALSE,
                 last_version |-> "v20"]
    /\ fs = [n \in DirNames |-> NoDir]
    /\ lua_lib = FALSE
    /\ heap = <<NewVersion("v20", IF host[1].assets = <<>> THEN Source(UrlZip)
                                  ELSE Binary(UrlBin, FALSE))>>
    /\ versions = <<1>>
    /\ selected_version = 1
    /\ progress = NoProgress
    /\ ui = UiIdle
    /\ tasks = <<>>
    /\ refreshes = <<[NewRefresh EXCEPT !.pc = "done", !.ok = TRUE]>>

NextDownload ==
    \/ \E force_refresh \in BOOLEAN : PlayClicked(force_refresh)
    \/ PlayDispatch
    \/ \E t \in 1..Len(tasks) : TaskStart(t)
    \/ NextChunks

SpecDownload == InitDownload /\ [][NextDownload]_vars

(* ------------------------------------- run_command on bounded streams *)
MaxItems == 3

ErrLines ==
    { CloningInto \o <<" ", "x">>,
      <<"x", " ">> \o CloningInto,
      SubSeq(CloningInto, 1, Len(CloningInto) - 1),
      <<"f", "a", "t", "a", "l">> }

StreamItems ==
    {Stdout(BuildLine), Stdout(<<"x">>)} \cup {Stderr(e) : e \in ErrLines}

\* a command that did not start, or up to MaxItems lines and then its exit
Streams ==
    {<<NotStarted>>}
        \cup UNION { { items \o <<Done(st)>> :
                         items \in [1..n -> StreamItems], st \in Statuses } :
                     n \in 0..MaxItems }

\* a build of v20 from its source archive has configured; cmake --build is
\* about to be run through run_command
InitCmd ==
    /\ platform = "linux"
    /\ host = <<Release("v20", <<>>, UrlZip)>>
    /\ config = [build_unsupported |-> TRUE, use_prebuilt_when_possible |-> TRUE,
                 download_lua |-> FALSE, last_version |-> "v20"]
    /\ fs = [n \in DirNames |-> IF n = "v20" THEN EmptyDir ELSE NoDir]
    /\ lua_lib = FALSE
    /\ heap = <<NewVersion("v20", Source(UrlZip)), NewVersion(LatestGit, GitLatest)>>
    /\ versions = <<2, 1>>
    /\ selected_version = 1
    /\ progress = Progress0
    /\ ui = UiIdle
    /\ \E out \in Streams :
         tasks = <<[NewTask(Source(UrlZip)) EXCEPT
                      !.ver = 1, !.pc = "compile", !.out = out,
                      !.trace = <<"configure">>,
                      !.before = Snapshot(1)]>>
    /\ refreshes = <<[NewRefresh EXCEPT !.pc = "done", !.ok = TRUE]>>

\* every bounded stream, through run_command
SpecCmd == InitCmd /\ [][NextLine]_vars

(* ----------------------------------------------------------------- claims *)
\* the catalog as a reader sees it: the (name, descriptor) of each entry
Catalog ==
    [k \in 1..Len(versions) |->
        [name |-> heap[versions[k]].name, data |-> heap[versions[k]].data]]

IsSynthetic(e) == e.name = LatestGit /\ e.data = GitLatest

Nested(d) == d.tag = "Local" /\ d.origin.tag = "Local"

AllRefreshed == \A r \in 1..Len(refreshes) : refreshes[r].pc = "done"

\* C1: in every reachable state no Version holds a Local descriptor whose
\* origin is itself Local, whatever the interleaving of plays and finishes.
C1_NoNestedLocal ==
    \A v \in 1..Len(heap) : ~Nested(heap[v].data)

\* C2: a reader that locks the catalog sees the old sequence (empty at
\* start) or a whole new one, which begins with the synthetic GitLatest entry.
C2_ReaderSeesWholeCatalog ==
    \/ versions = <<>>
    \/ IsSynthetic(Catalog[1])

\* C3: once no refresh is in flight the catalog holds exactly one entry named
\* "Latest (Git)", at index 0, followed by the entries one refresh built.
C3_OneGitLatestWhenQuiescent ==
    AllRefreshed =>
        /\ Len(versions) >= 1
        /\ IsSynthetic(Catalog[1])
        /\ Cardinality({k \in 1..Len(versions) : Catalog[k].name = LatestGit}) = 1
        /\ \E r \in 1..Len(refreshes) : Tail(Catalog) = refreshes[r].built

\* the first asset of the release that matches the target, if any
PlatformAssets(rel) ==
    {i \in 1..Len(rel.assets) :
        rel.assets[i].name = (IF platform = "windows" THEN "win64" ELSE "AppImage")}

HasPlatformAsset(rel) == PlatformAssets(rel) # {}

FirstPlatformUrl(rel) ==
    rel.assets[CHOOSE i \in PlatformAssets(rel) :
                  \A j \in PlatformAssets(rel) : i <= j].url

SidecarUsable(name) ==
    fs[name].dir /\ fs[name].has_ron /\ ron_from_str(fs[name].ron).ok

\* C4: a named release gets exactly one descriptor: the parseable sidecar,
\* else Binary when a platform asset exists and prebuilt is preferred, else
\* Source when there is a source archive, else NotFound.
C4_ParsePrecedence ==
    \A r \in 1..Len(refreshes) :
        (refreshes[r].ok /\ refreshes[r].pc \in {"assign", "insert", "done"}) =>
            LET rel == host[1]
                built == refreshes[r].built
                pre == config.use_prebuilt_when_possible
            IN IF rel.name = NoName THEN built = <<>>
               ELSE /\ Len(built) = 1
                    /\ built[1].name = rel.name
                    /\ SidecarUsable(rel.name) =>
                          ron_to_string(built[1].data) = fs[rel.name].ron
                    /\ (~SidecarUsable(rel.name) /\ HasPlatformAsset(rel) /\ pre) =>
                          built[1].data =
                              Binary(FirstPlatformUrl(rel), platform = "windows")
                    /\ (/\ ~SidecarUsable(rel.name)
                        /\ ~(HasPlatformAsset(rel) /\ pre)
                        /\ rel.zipball_url # NoUrl) =>
                          built[1].data = Source(rel.zipball_url)
                    /\ (/\ ~SidecarUsable(rel.name)
                        /\ ~(HasPlatformAsset(rel) /\ pre)
                        /\ rel.zipball_url = NoUrl) =>
                          built[1].data = NotFound

\* a release with both a platform asset and a source archive, no sidecar,
\* prebuilt preferred: resolved, and in the catalog
C4_Witness ==
    /\ AllRefreshed /\ refreshes[1].ok
    /\ host[1].name # NoName
    /\ ~SidecarUsable(host[1].name)
    /\ HasPlatformAsset(host[1]) /\ host[1].zipball_url # NoUrl
    /\ config.use_prebuilt_when_possible
    /\ Len(versions) = 2 /\ Catalog[2].data.tag = "Binary"

\* C5: a force-refresh play on Local{binary, origin = O} that succeeds ends
\* with a Local descriptor whose origin is O again.
C5_ForcedPlayRewrapsOrigin ==
    \A t \in 1..Len(tasks) :
        (tasks[t].forced # <<>> /\ tasks[t].wrote # <<>>) =>
            /\ tasks[t].on = tasks[t].forced[1]
            /\ tasks[t].wrote[1].tag = "Local"
            /\ tasks[t].wrote[1].origin = tasks[t].forced[1]

\* C6: the step in which a play's download or extraction fails leaves the
\* descriptor and the sidecar as they were when play was called.
C6_FailedAcquisitionLeavesState ==
    [][\A t \in 1..Len(tasks) :
          (/\ tasks[t].end = ""
           /\ tasks'[t].end = "aborted"
           /\ tasks'[t].failed \in {"download", "unpack"}) =>
              /\ tasks'[t].err
              /\ heap'[tasks[t].ver].data = tasks[t].before.data
              /\ fs'[NameOf(t)].has_ron = tasks[t].before.has_ron
              /\ fs'[NameOf(t)].ron = tasks[t].before.ron]_vars

GitTasks == {t \in 1..Len(tasks) : tasks[t].on.tag = "GitLatest"}

\* C7 as claimed: a GitLatest play that built and launched has left the
\* descriptor Local{build output, origin GitLatest} and that value in the sidecar.
C7_GitLatestBecomesLocal ==
    \A t \in GitTasks :
        tasks[t].end = "launched" =>
            /\ heap[tasks[t].ver].data = Local(build_output(platform), GitLatest)
            /\ fs[NameOf(t)].has_ron
            /\ fs[NameOf(t)].ron = ron_to_string(heap[tasks[t].ver].data)

\* C7 as amended: a GitLatest play never calls finish: its descriptor stays
\* GitLatest, it writes no sidecar, and what it launches, after the build
\* succeeded and progress was cleared, is the build output path.
C7_GitLatestStaysGitLatest ==
    \A t \in GitTasks :
        /\ heap[tasks[t].ver].data = GitLatest
        /\ tasks[t].wrote = <<>>
        /\ fs[NameOf(t)].has_ron = tasks[t].before.has_ron
        /\ fs[NameOf(t)].ron = tasks[t].before.ron
        /\ tasks[t].pc \in {"start", "git", "build", "lua_make", "lua_install",
                            "configure", "compile", "clear", "run", "done"}
        /\ tasks[t].ran # "" =>
              /\ tasks[t].ran = build_output(platform)
              /\ tasks[t].end \in {"launched", "launch_failed"}

\* a GitLatest play that cloned, built and launched
C7_Witness ==
    \E t \in GitTasks :
        /\ tasks[t].end = "launched"
        /\ fs[NameOf(t)].src

\* C8: once no play is in flight, progress is None, whichever step failed.
C8_ProgressClearedWhenQuiescent ==
    (/\ tasks # <<>>
     /\ ui.pc = "idle"
     /\ \A t \in 1..Len(tasks) : tasks[t].end # "") =>
        progress = NoProgress

\* C9: the UI thread never asks for the progress lock while it holds it, so
\* no lock acquisition waits forever.
C9_NoSelfDeadlock ==
    ui.pc # "blocked"

\* C10: when every host query failed and no refresh is in flight, the catalog
\* is the synthetic entry followed by the sidecar-bearing subdirectories.
C10_FallbackCatalog ==
    (/\ AllRefreshed
     /\ \A r \in 1..Len(refreshes) : ~refreshes[r].ok) =>
        /\ \A r \in 1..Len(refreshes) : refreshes[r].warned
        /\ Catalog = <<[name |-> LatestGit, data |-> GitLatest]>> \o local_scan(fs, 1)

\* the step in which Version::play dispatches on the descriptor (line 82)
Dispatching == ui.pc = "play" /\ ui'.pc # "play"

\* C11: play on "v11" with a Source descriptor and build_unsupported off
\* reports that the version is not supported by the launcher and leaves the
\* versions directory as it was before play.
C11_LegacySourceRejected ==
    [][(/\ Dispatching
        /\ heap[ui.ver].name = "v11"
        /\ heap[ui.ver].data.tag = "Source"
        /\ ~heap[ui.ver].poisoned
        /\ ~config.build_unsupported) =>
            /\ ui'.err = "Versions 0.11 and 0.12 are not supported by the laucher"
            /\ tasks' = tasks
            /\ fs'["v11"].dir = ui.before.dir
            /\ fs'["v11"].has_ron = ui.before.has_ron]_vars

\* a refresh that ran from call to completion with no other refresh in flight
RanAlone(r) == refreshes[r].pc = "done" /\ ~refreshes[r].overlapped

\* C12: two refreshes run one after the other, with the same host response,
\* sidecars and configuration, leave the same sequence of (name, descriptor)
\* entries, with the GitLatest entry at index 0.
C12_RefreshIdempotent ==
    \A a, b \in 1..Len(refreshes) :
        (a < b /\ RanAlone(a) /\ RanAlone(b)
               /\ refreshes[a].ok = refreshes[b].ok) =>
            /\ refreshes[a].result = refreshes[b].result
            /\ IsSynthetic(refreshes[a].result[1])
            /\ IsSynthetic(refreshes[b].result[1])

C12_Witness ==
    /\ Len(refreshes) = 2
    /\ RanAlone(1) /\ RanAlone(2)
    /\ refreshes[1].ok = refreshes[2].ok
    /\ Len(refreshes[2].result) > 2

NamesOf(seq) == {seq[k].name : k \in 1..Len(seq)}

\* the versions whose sidecar is present and parses
Parseable ==
    {n \in DirNames : fs[n].dir /\ fs[n].has_ron /\ ron_from_str(fs[n].ron).ok}

\* the versions whose sidecar is present and does not parse
Unparseable ==
    {n \in DirNames : fs[n].dir /\ fs[n].has_ron /\ ~ron_from_str(fs[n].ron).ok}

ReleaseNames == {host[i].name : i \in 1..Len(host)} \ {NoName}

Scanned(r) == refreshes[r].pc \in {"assign", "insert", "done"}

\* C13 as stated: on every refresh path, a sidecar that does not parse is
\* logged as a warning naming the version and that version alone is omitted.
C13_CorruptSidecarSkippedEverywhere ==
    \A r \in 1..Len(refreshes) :
        Scanned(r) =>
            LET read == IF refreshes[r].ok THEN ReleaseNames ELSE DirNames
            IN /\ refreshes[r].corrupt = Unparseable \cap read
               /\ NamesOf(refreshes[r].built) \cap Unparseable = {}
               /\ Parseable \cap read \subseteq NamesOf(refreshes[r].built)

\* C13 amended: the local-scan fallback warns about and omits exactly the
\* versions whose sidecar does not parse and lists every version whose
\* sidecar parses; the per-release resolution logs nothing about a sidecar
\* that does not parse and still lists the release, with the descriptor
\* resolved from the release.
C13_CorruptSidecarSkippedInFallback ==
    \A r \in 1..Len(refreshes) :
        Scanned(r) =>
            IF refreshes[r].ok
            THEN /\ refreshes[r].corrupt = {}
                 /\ NamesOf(refreshes[r].built) = ReleaseNames
                 /\ \A k \in 1..Len(refreshes[r].built) :
                        refreshes[r].built[k].name \in Unparseable =>
                            refreshes[r].built[k].data.tag
                                \in {"Binary", "Source", "NotFound"}
            ELSE /\ refreshes[r].corrupt = Unparseable
                 /\ NamesOf(refreshes[r].built) = Parseable
                 /\ \A k \in 1..Len(refreshes[r].built) :
                        refreshes[r].built[k].data =
                            ron_from_str(fs[refreshes[r].built[k].name].ron).val

C13_Witness ==
    /\ Len(refreshes) = 2
    /\ Scanned(1) /\ Scanned(2)
    /\ refreshes[1].ok /\ ~refreshes[2].ok
    /\ Unparseable \cap ReleaseNames # {}
    /\ refreshes[2].corrupt # {}
    /\ refreshes[2].built # <<>>

\* C14: on every target other than Windows, a play of a Binary descriptor with
\* unzip = false that got as far as finish has left the downloaded executable
\* with permission bits 0755 before the binary is launched.
C14_ExecutableBeforeLaunch ==
    \A t \in 1..Len(tasks) :
        (/\ tasks[t].on.tag = "Binary" /\ ~tasks[t].on.unzip
         /\ ~cfg_windows(platform)
         /\ tasks[t].pc \in {"finish", "clear", "run"}) =>
            fs[NameOf(t)].exe = Mode755

\* C15: when finish has persisted a Local descriptor and the launch that
\* follows fails, an error is reported and both the in-memory descriptor and
\* the sidecar stay Local: the failure reverts neither.
C15_LaunchFailureKeepsLocal ==
    [][\A t \in 1..Len(tasks) :
        (/\ tasks[t].pc = "run" /\ tasks[t].wrote # <<>>
         /\ tasks'[t].end = "launch_failed") =>
            LET v == tasks[t].ver
                sidecar == read_sidecar(fs', heap[v].name)
            IN /\ tasks'[t].err
               /\ heap'[v].data.tag = "Local"
               /\ heap'[v].data = heap[v].data
               /\ sidecar.ok
               /\ ron_from_str(sidecar.text).ok
               /\ ron_from_str(sidecar.text).val.tag = "Local"
               /\ fs' = fs]_vars

C15_Witness ==
    \E t \in 1..Len(tasks) :
        /\ tasks[t].wrote # <<>>
        /\ tasks[t].end = "launch_failed"
        /\ tasks[t].err
        /\ heap[tasks[t].ver].data.tag = "Local"

\* a decimal integer: an optional sign and at least one digit
IsInteger(s) ==
    LET d == IF Len(s) > 0 /\ s[1] \in {"+", "-"} THEN Tail(s) ELSE s
    IN Len(d) > 0 /\ \A k \in 1..Len(d) : IsDigit(d[k])

RECURSIVE Decimal(_)
Decimal(d) ==
    IF d = <<>> THEN 0
    ELSE Decimal(SubSeq(d, 1, Len(d) - 1)) * 10 + DigitOf(d[Len(d)])

IntegerValue(s) ==
    IF s[1] = "-" THEN 0 - Decimal(Tail(s))
    ELSE IF s[1] = "+" THEN Decimal(Tail(s))
    ELSE Decimal(s)

Unpadded(s) == SelectSeq(s, LAMBDA c : c # " ")

\* an integer with any number of spaces before and after it
IsPaddedInteger(s) ==
    \E a, b \in 1..Len(s) :
        /\ a <= b
        /\ \A k \in 1..Len(s) : (k < a \/ k > b) => s[k] = " "
        /\ IsInteger(SubSeq(s, a, b))

\* "[" N "%]" followed by any text, N optionally padded with spaces
ClaimedShape(line) ==
    \E i \in 2..(Len(line) - 1) :
        /\ line[1] = "[" /\ line[i] = "%" /\ line[i + 1] = "]"
        /\ IsPaddedInteger(SubSeq(line, 2, i - 1))

\* as ClaimedShape, with any number of spaces between "%" and "]" and N
\* within the range of a 32-bit signed integer
AcceptedShape(line) ==
    \E i \in 2..(Len(line) - 1), j \in 3..Len(line) :
        /\ i < j
        /\ line[1] = "[" /\ line[i] = "%" /\ line[j] = "]"
        /\ \A k \in (i + 1)..(j - 1) : line[k] = " "
        /\ IsPaddedInteger(SubSeq(line, 2, i - 1))
        /\ IntegerValue(Unpadded(SubSeq(line, 2, i - 1))) \in I32Min..I32Max

\* the number between "[" and the first "%"
ShapeValue(line) ==
    LET i == CHOOSE i \in 2..Len(line) :
                 line[i] = "%" /\ \A k \in 2..(i - 1) : line[k] # "%"
    IN IntegerValue(Unpadded(SubSeq(line, 2, i - 1)))

\* the compile step hands the first pending line to the callback
LineStep(t) ==
    /\ tasks[t].pc = "compile" /\ tasks[t].out # <<>>
    /\ Head(tasks[t].out).kind = "Stdout"
    /\ tasks'[t].out = Tail(tasks[t].out)

\* C16 as stated: a compile line "[" N "%]" text sets progress to N/100 with
\* the whole line as label, and every line not of that shape leaves progress
\* as it was.
C16_OnlyBracketPercentLines ==
    [][\A t \in 1..Len(tasks) :
        LineStep(t) =>
            LET line == Head(tasks[t].out).text
            IN IF ClaimedShape(line)
               THEN progress' = <<ShapeValue(line) * 10, line>>
               ELSE progress' = progress]_vars

\* C16 amended: a compile line "[" N "%" "]" text, with N a signed 32-bit
\* decimal integer, spaces allowed around N and between "%" and "]", sets
\* progress to N/100 with the whole line as label; every other line leaves
\* progress as it was.
C16_BracketPercentLines ==
    [][\A t \in 1..Len(tasks) :
        LineStep(t) =>
            LET line == Head(tasks[t].out).text
            IN IF AcceptedShape(line)
               THEN progress' = <<ShapeValue(line) * 10, line>>
               ELSE progress' = progress]_vars

C16_Witness ==
    /\ Len(tasks) = 1
    /\ tasks[1].pc = "compile" /\ tasks[1].out = <<Done("ok")>>
    /\ progress = <<40, <<"[", " ", "4", "%", "]">>>>

C18_FinishWrapsDispatched ==
    [][\A t \in 1..Len(tasks) :
        /\ (tasks[t].pc = "finish" /\ tasks'[t].pc = "clear") =>
              LET v == tasks[t].ver
                  data == Local(FinishBinary(tasks[t].on.tag, platform), tasks[t].on)
              IN /\ heap'[v].data = data
                 /\ fs'[heap[v].name].has_ron
                 /\ fs'[heap[v].name].ron = ron_to_string(data)
                 /\ tasks'[t].wrote = <<data>>
        /\ (tasks[t].pc = "clear" /\ tasks'[t].pc = "run") =>
              /\ progress' = NoProgress
              /\ tasks[t].on.tag \in {"Binary", "Source"} => tasks[t].wrote # <<>>
        /\ (tasks[t].pc = "run" /\ tasks'[t].end = "launched"
                /\ tasks[t].on.tag \in {"Binary", "Source"}) =>
              tasks[t].wrote # <<>>]_vars

\* C19: play on a GitLatest Version with build_unsupported off reports an
\* error, spawns no task, leaves the descriptor GitLatest and returns with
\* progress cleared.
C19_GitLatestPolicyError ==
    [][(/\ Dispatching
        /\ ~heap[ui.ver].poisoned
        /\ heap[ui.ver].data.tag = "GitLatest"
        /\ ~config.build_unsupported) =>
            /\ ui'.err = "This version has to be built from source"
            /\ tasks' = tasks
            /\ heap'[ui.ver].data = GitLatest
            /\ progress' = NoProgress
            /\ ui'.pc = "idle"]_vars

\* C20: play on a Source Version named "v11" or "v12" with build_unsupported
\* on is rejected with an error: nothing is spawned for it and its descriptor
\* is unchanged; a Source Version of any other name gets its download task
\* spawned.
C20_LegacyNamesRejected ==
    [][(/\ Dispatching
        /\ ~heap[ui.ver].poisoned
        /\ heap[ui.ver].data.tag = "Source"
        /\ config.build_unsupported) =>
            IF heap[ui.ver].name \in {"v11", "v12"}
            THEN /\ ui'.err = "Versions 0.11 and 0.12 are not supported by the laucher"
                 /\ ui'.pc = "idle"
                 /\ tasks' = tasks
                 /\ \A t \in 1..Len(tasks') : tasks'[t].ver # ui.ver
                 /\ heap'[ui.ver].data = heap[ui.ver].data
                 /\ fs' = fs /\ progress' = progress
            ELSE /\ ui'.err = ""
                 /\ Len(tasks') = Len(tasks) + 1
                 /\ tasks'[Len(tasks')].ver = ui.ver
                 /\ tasks'[Len(tasks')].on = heap[ui.ver].data
                 /\ tasks'[Len(tasks')].pc = "start"]_vars

C20_Witness ==
    /\ ui.pc = "idle"
    /\ ui.err = "Versions 0.11 and 0.12 are not supported by the laucher"
    /\ config.build_unsupported
    /\ config.last_version = "v11"
    /\ \E t \in 1..Len(tasks) :
          tasks[t].on.tag = "Source" /\ NameOf(t) = "v20" /\ tasks[t].pc = "download"

\* C21: play(force_refresh = false) on a Local descriptor launches the binary
\* at the path the descriptor stores, spawns nothing, and leaves the
\* descriptor, the sidecar and progress as they were.
C21_LocalPlayOnlyLaunches ==
    [][(/\ Dispatching
        /\ ~ui.force
        /\ heap[ui.ver].data.tag = "Local") =>
            /\ ui'.pc = "idle"
            /\ ui'.ran = heap[ui.ver].data.binary
            /\ tasks' = tasks
            /\ heap' = heap
            /\ fs'[heap[ui.ver].name].has_ron = ui.before.has_ron
            /\ fs'[heap[ui.ver].name].ron = ui.before.ron
            /\ progress' = progress]_vars

\* C22: play on a NotFound descriptor, with or without force_refresh, reports
\* one error and does nothing else: no task, no launch, the descriptor stays
\* NotFound and the disk, the version directory included, is as play found it.
C22_NotFoundPlayOnlyReports ==
    [][(/\ Dispatching
        /\ heap[ui.ver].data.tag = "NotFound") =>
            /\ ui'.pc = "idle"
            /\ ui'.err = "Version files not found or it's not supported on your platform"
            /\ ui'.ran = ""
            /\ tasks' = tasks
            /\ heap'[ui.ver].data = NotFound
            /\ fs'[heap[ui.ver].name].dir = ui.before.dir
            /\ fs'[heap[ui.ver].name].has_ron = ui.before.has_ron
            /\ fs'[heap[ui.ver].name].ron = ui.before.ron]_vars

\* C23: in a GitLatest play, a failed pull of an existing checkout does not
\* abort the play, which goes on to build what is on disk; a failed clone
\* (no checkout) aborts it with progress cleared, and neither the build nor
\* the launch is ever performed.
C23_PullFailureProceeds ==
    [][\A t \in 1..Len(tasks) :
        /\ (tasks[t].pc = "git" /\ tasks'[t] # tasks[t]) =>
              IF fs[NameOf(t)].src
              THEN /\ tasks'[t].pc = "build" /\ tasks'[t].end = ""
                   /\ tasks'[t].trace \in {<<"pull">>, <<"pull_failed">>}
              ELSE \/ tasks'[t].pc = "build" /\ tasks'[t].trace = <<"clone">>
                   \/ /\ tasks'[t].end = "aborted" /\ tasks'[t].failed = "clone"
                      /\ tasks'[t].err
                      /\ progress' = NoProgress
        /\ tasks'[t].failed = "clone" =>
              /\ tasks'[t].pc = "done" /\ tasks'[t].end = "aborted"
              /\ tasks'[t].trace = <<>> /\ tasks'[t].ran = ""]_vars

C23_Witness ==
    \E t \in 1..Len(tasks) :
        /\ tasks[t].on.tag = "GitLatest"
        /\ tasks[t].trace = <<"pull_failed", "configure", "compile">>
        /\ tasks[t].end = "launched"

\* a Source or GitLatest play, the two strategies that build
Builds(t) == tasks[t].on.tag \in {"GitLatest", "Source"}

IsPrefix(a, b) == Len(a) <= Len(b) /\ SubSeq(b, 1, Len(a)) = a

\* the steps of the game's build that ran to a successful end, in order
GameSteps(t) ==
    SelectSeq(tasks[t].trace, LAMBDA x : x \in {"configure", "compile"})

\* C24: in the build pipeline configure runs before compile and compile only
\* after configure succeeded; build returns success only when both succeeded;
\* a GitLatest or Source play launches, and a Source play changes its
\* descriptor, only after build returned success.
C24_BuildBeforeLaunch ==
    [][\A t \in 1..Len(tasks) :
        Builds(t) =>
            /\ IsPrefix(GameSteps(t)', <<"configure", "compile">>)
            /\ tasks'[t].pc = "compile" => GameSteps(t)' = <<"configure">>
            /\ tasks'[t].pc \in {"finish", "clear", "run"} =>
                  GameSteps(t)' = <<"configure", "compile">>
            /\ tasks'[t].ran # "" => GameSteps(t)' = <<"configure", "compile">>
            /\ tasks'[t].wrote # <<>> => GameSteps(t)' = <<"configure", "compile">>
            /\ (tasks[t].pc = "finish" /\ tasks'[t].pc # "finish") =>
                  GameSteps(t) = <<"configure", "compile">>]_vars

C24_Witness ==
    \E t, u \in 1..Len(tasks) :
        /\ tasks[t].on.tag = "Source" /\ tasks[t].end = "launched"
        /\ tasks[t].wrote # <<>>
        /\ tasks[u].on.tag = "GitLatest" /\ tasks[u].failed = "build"
        /\ tasks[u].trace = <<"clone", "configure">>

\* the texts of the items of one kind, in arrival order
TextsOf(items, kind) ==
    LET sel == SelectSeq(items, LAMBDA i : i.kind = kind)
    IN [k \in 1..Len(sel) |-> sel[k].text]

MentionsCloning(text) ==
    \E i \in 1..Len(text) :
        /\ i + 11 <= Len(text)
        /\ \A k \in 0..11 : text[i + k] = CloningInto[k + 1]

ErrorsIn(log) == SelectSeq(log, LAMBDA e : e.level = "error")

\* C25: run_command returns failure exactly when the process could not be
\* started or ended with a non-success or unobtainable status, reporting one
\* error then; otherwise it returns success, having passed every stdout line
\* to the callback in arrival order and logged every stderr line except
\* those containing "Cloning into".
C25_RunCommandOutcome ==
    \A t \in 1..Len(tasks) :
        (tasks[t].seen # <<>> /\ tasks[t].out = <<>>) =>
            LET last == tasks[t].seen[Len(tasks[t].seen)]
                failure == tasks[t].failed = "build"
                errlines == SelectSeq(TextsOf(tasks[t].seen, "Stderr"),
                                      LAMBDA e : ~MentionsCloning(e))
            IN /\ failure <=> (last.kind = "NotStarted" \/ last.status # "ok")
               /\ Len(ErrorsIn(tasks[t].logged)) = IF failure THEN 1 ELSE 0
               /\ ~failure => "compile" = tasks[t].trace[Len(tasks[t].trace)]
               /\ tasks[t].passed = TextsOf(tasks[t].seen, "Stdout")
               /\ SelectSeq(tasks[t].logged, LAMBDA e : e.level = "stderr") =
                     [k \in 1..Len(errlines) |->
                         [level |-> "stderr", text |-> errlines[k]]]

C25_Witness ==
    /\ Len(tasks) = 1
    /\ tasks[1].pc = "finish"
    /\ Len(tasks[1].passed) = 1
    /\ Len(tasks[1].seen) = 4
    /\ Len(tasks[1].logged) = 1

\* the steps of the interpreter pre-step that ran to a successful end
LuaSteps(t) ==
    SelectSeq(tasks[t].trace,
              LAMBDA x : x \in {"lua_clone", "lua_make", "lua_install"})

\* every command of the interpreter pre-step that was run, failed ones too
LuaRuns(t) ==
    SelectSeq(tasks[t].trace,
              LAMBDA x : x \in {"lua_clone", "lua_make", "lua_install",
                                "lua_clone_failed", "lua_make_failed",
                                "lua_install_failed"})

\* C26: the interpreter pre-step is entered only with download_lua set and
\* the interpreter's lib directory absent; its clone, make and install run in
\* that order, each only after the one before succeeded; when one of them
\* fails build returns failure and the game's configure step never runs.
C26_InterpreterPreStep ==
    [][\A t \in 1..Len(tasks) :
        /\ IsPrefix(LuaSteps(t)', <<"lua_clone", "lua_make", "lua_install">>)
        /\ (tasks[t].pc = "build" /\ LuaRuns(t)' # LuaRuns(t)) =>
              config.download_lua /\ ~lua_lib
        /\ (LuaRuns(t)' # LuaRuns(t) /\ LuaSteps(t)' = LuaSteps(t)) =>
              tasks'[t].end = "aborted"
        /\ tasks'[t].pc = "lua_make" => LuaSteps(t)' = <<"lua_clone">>
        /\ tasks'[t].pc = "lua_install" => LuaSteps(t)' = <<"lua_clone", "lua_make">>
        /\ (tasks'[t].pc \in {"configure", "compile"} /\ LuaSteps(t)' # <<>>) =>
              LuaSteps(t)' = <<"lua_clone", "lua_make", "lua_install">>
        /\ (tasks[t].pc \in {"build", "lua_make", "lua_install"}
                /\ tasks'[t].end = "aborted") =>
              /\ GameSteps(t)' = <<>>
              /\ tasks'[t].pc = "done" /\ tasks'[t].failed = "build"
        /\ (GameSteps(t)' # <<>> /\ LuaSteps(t)' # <<>>) =>
              LuaSteps(t)' = <<"lua_clone", "lua_make", "lua_install">>]_vars

C26_Witness ==
    \E t, u \in 1..Len(tasks) :
        /\ tasks[t].trace = <<"lua_clone", "lua_make", "lua_install", "configure", "compile">>
        /\ tasks[u].trace = <<"clone", "lua_clone", "lua_make_failed">>
        /\ tasks[u].end = "aborted"

\* C27: a play is accepted while the future of an earlier play has been
\* spawned and has not yet set progress, whether the selected Version is the
\* one that future works on or another one; two futures are then in flight.
C27_SecondPlayAccepted ==
    \A t \in 1..Len(tasks) :
        (/\ Running(t) /\ tasks[t].pc = "start"
         /\ ui.pc = "idle" /\ progress = NoProgress
         /\ Len(tasks) < MaxPlays) =>
            /\ ENABLED PlayClicked(FALSE)
            /\ ENABLED PlayClicked(TRUE)

C27_Witness ==
    /\ Len(tasks) = 2
    /\ tasks[1].ver = tasks[2].ver
    /\ Running(1) /\ Running(2)
    /\ tasks[1].pc \notin {"start", "done"}
    /\ tasks[2].pc \notin {"start", "done"}

C27_WitnessOther ==
    /\ Len(tasks) = 2
    /\ heap[tasks[1].ver].name # heap[tasks[2].ver].name
    /\ Running(1) /\ Running(2)
    /\ tasks[1].pc \notin {"start", "done"}
    /\ tasks[2].pc \notin {"start", "done"}

\* C28: while a download receives its body, each chunk sets progress to the
\* bytes received over the content length when the length is known; when it
\* is unknown, progress is absent for the whole download.
C28_DownloadProgress ==
    [][\A t \in 1..Len(tasks) :
        (tasks[t].pc = "chunks" /\ tasks'[t].received # tasks[t].received) =>
            IF tasks[t].length # <<>>
            THEN progress' = replace_progress(tasks'[t].received, tasks[t].length[1])
            ELSE progress = NoProgress /\ progress' = NoProgress]_vars

\* the part of C28 about a known content length, on its own
C28_KnownLength ==
    [][\A t \in 1..Len(tasks) :
        (/\ tasks[t].pc = "chunks" /\ tasks'[t].received # tasks[t].received
         /\ tasks[t].length # <<>>) =>
            /\ progress' = replace_progress(tasks'[t].received, tasks[t].length[1])
            /\ progress'[1] * tasks[t].length[1] <= 1000 * tasks'[t].received + tasks[t].length[1]
            /\ progress'[1] * tasks[t].length[1] >= 1000 * tasks'[t].received - tasks[t].length[1]]_vars

\* C29: once the refreshes have ended, none of them having run alongside
\* another, no two entries of the catalog have the same name, whatever the
\* host answered.
C29_NamesUnique ==
    (\A r \in 1..Len(refreshes) :
        refreshes[r].pc = "done" /\ ~refreshes[r].overlapped) =>
            \A i, j \in 1..Len(versions) :
                Catalog[i].name = Catalog[j].name => i = j

\* the plays that are in flight for a name, the one the UI is in included
InFlight(name) ==
    \/ ui.pc # "idle" /\ heap[ui.ver].name = name
    \/ \E t \in 1..Len(tasks) : tasks[t].end = "" /\ NameOf(t) = name

\* C30: when the refreshes have ended without overlapping, no play has
\* failed, and no play is in flight for the name of a catalog entry whose
\* sidecar exists, the entry's descriptor is what the sidecar holds.
C30_CatalogMatchesSidecar ==
    (/\ \A r \in 1..Len(refreshes) :
            refreshes[r].pc = "done" /\ ~refreshes[r].overlapped
     /\ \A t \in 1..Len(tasks) : tasks[t].end \in {"", "launched"}) =>
        \A k \in 1..Len(versions) :
            LET name == Catalog[k].name
                side == ron_from_str(fs[name].ron)
            IN (fs[name].has_ron /\ ~InFlight(name)) =>
                  side.ok /\ side.val = Catalog[k].data

\* C31: every progress value stored lies between 0 and 1 inclusive (0 to
\* 1000 permille), whatever integer a build line carries between its
\* brackets and whatever the content length and the chunks of a download.
C31_ProgressInUnitRange ==
    progress # NoProgress => (progress[1] >= 0 /\ progress[1] <= 1000)

====
